---- MODULE Spec2Model ----
(***************************************************************************)
(* State-machine model of the reverse tunnel server (startServer):         *)
(* the subdomain registry `clients`, the WebSocket control channels, the   *)
(* HTTP relay handler app.all('/t/:subdomain/*') with its per-request      *)
(* listener and timer, and the heartbeat interval.                         *)
(*                                                                         *)
(* Every handler of the single-threaded event loop is one atomic action.   *)
(* Time is kept in relative clocks (time to the next heartbeat tick, age   *)
(* of every armed timer) and advances in steps of at most Quantum; a timer *)
(* that is due fires before time advances further.                         *)
(*                                                                         *)
(* Two instruments can be switched on at start (observe): the time since   *)
(* each connection's last pong (sinceAck), and the message the last        *)
(* 'message' event carried (lastMsg).  They are read by the properties     *)
(* only; no handler depends on them.  A third setting of observe lets the  *)
(* inbound requests carry headers; without it they carry none.             *)
(***************************************************************************)
EXTENDS Integers, Sequences, FiniteSets, TLC

\* ----------------------------------------------------------------- bounds
MaxArrivals == 3  \* connections and HTTP requests together over one run
TimeGrain == 1    \* how many steps a heartbeat period is cut into

\* ------------------------------------------------------ program constants
HeartbeatPeriod == 30 \* setInterval(..., 30000), in units of 1000 ms
RelayTimeout == 30    \* setTimeout(..., 30000), in units of 1000 ms
CodePolicy == 1008    \* ws.close(1008, ...)
CodeRestart == 1012   \* existing.ws.close(1012, ...)
DefaultStatus == 200  \* data.status ?? 200

\* of the arrivals of one run, at most half (rounded up) are connections
\* and at most half are HTTP requests
MaxChan == (MaxArrivals + 1) \div 2
MaxReq == (MaxArrivals + 1) \div 2

Chan == 1..MaxChan
Req == 1..MaxReq
NoChan == 0
Sub == {"a", "b"}
Undefined == "<undefined>"
Generated == "<generated>"
Quantum == HeartbeatPeriod \div TimeGrain
AckCap == 2 * HeartbeatPeriod + Quantum

Min2(x, y) == IF x <= y THEN x ELSE y
MinOf(S) == CHOOSE x \in S : \A y \in S : x <= y

VARIABLES
  cfg,        \* ServerConfig: authToken, allowedSubdomains, replaceExisting
  clients,    \* the Map subdomain -> owning channel (NoChan: no entry)
  ws,         \* per connection: readyState, query parameters, isAlive, close code
  sinceAck,   \* per connection: time since its admission or last pong, when observed
  toTick,     \* time until the heartbeat interval fires next
  req,        \* per HTTP request: position in the handler, entry, listener, timer,
              \* req.headers and payload.headers while the request is under way
  delivered,  \* per HTTP request: the replies written to res, in order
  lastMsg,    \* the message the last handler received (Quiet: none), when observed
  observe     \* what the run records or varies: "none", "clock", "messages", "headers"

vars == <<cfg, clients, ws, sinceAck, toTick, req, delivered, lastMsg, observe>>

\* ---------------------------------------------------------- configuration
Configs ==
  [authToken : {Undefined, "", "secret"},
   allowedSubdomains : {{}, {"a"}},
   replaceExisting : BOOLEAN]

\* const effectiveToken = authToken ?? crypto.randomBytes(16).toString('hex')
effectiveToken == IF cfg.authToken = Undefined THEN Generated ELSE cfg.authToken

\* const tokenWasGenerated = !authToken
tokenWasGenerated == cfg.authToken = Undefined \/ cfg.authToken = ""

\* const isAllowed = (s) => allowedSubdomains.length === 0 || allowedSubdomains.includes(s)
isAllowed(s) == cfg.allowedSubdomains = {} \/ s \in cfg.allowedSubdomains

\* ------------------------------------------------------------ connections
FreshWs ==
  [state |-> "fresh", subdomain |-> "", isAlive |-> "undefined",
   code |-> 0, reason |-> "", admitted |-> FALSE, destroyed |-> FALSE]

FreshReq ==
  [phase |-> "idle", subdomain |-> "", entry |-> NoChan,
   listener |-> FALSE, timer |-> FALSE, age |-> 0, sentOn |-> NoChan,
   headers |-> {}, payload |-> {}]

\* a message that is no JSON text
NoMsg == [json |-> FALSE, id |-> 0, type |-> "", status |-> 0, valid |-> TRUE]

\* lastMsg after a handler that received no message
Quiet == [kind |-> "none", id |-> 0]

\* lastMsg after the 'message' handlers ran on m: its type tag and its id
Heard(m) ==
  IF observe = "messages"
    THEN [kind |-> IF m.json THEN m.type ELSE "text", id |-> m.id]
    ELSE Quiet

\* connections and requests that have arrived so far
Arrived(w, q) ==
  Cardinality({c \in Chan : w[c].state # "fresh"}) +
  Cardinality({r \in Req : q[r].phase # "idle"})

\* the state startServer leaves: nothing registered, the interval armed
Started ==
  /\ clients = [s \in Sub |-> NoChan]
  /\ ws = [c \in Chan |-> FreshWs]
  /\ sinceAck = [c \in Chan |-> 0]
  /\ toTick = HeartbeatPeriod
  /\ req = [r \in Req |-> FreshReq]
  /\ delivered = [r \in Req |-> <<>>]
  /\ lastMsg = Quiet

Init ==
  /\ cfg \in Configs
  /\ observe = "none"
  /\ Started

\* (mutant) close() that leaves the socket as it is
WsCloseNoop(w, code, reason) == w

\* WebSocket.close(code, reason): starts the closing handshake of an OPEN
\* socket; on a socket that is already CLOSING or CLOSED nothing is sent.
WsClose(w, code, reason) ==
  IF w.state = "open"
    THEN [w EXCEPT !.state = "closing", !.code = code, !.reason = reason]
    ELSE w

\* WebSocket.terminate(): destroys the socket; its 'close' event follows at once.
WsTerminate(w) ==
  IF w.state \in {"open", "closing"}
    THEN [w EXCEPT !.state = "closing", !.destroyed = TRUE]
    ELSE w

\* wss.clients: the connections whose 'close' event has not been emitted yet
wssClients == {c \in Chan : ws[c].state \in {"open", "closing"}}

\* the truthiness test `effectiveToken && token !== effectiveToken`
AuthFails(token) == effectiveToken # "" /\ token # effectiveToken

\* (mutant) no uniqueness check: a claim always goes through
RejectInUseNever(subdomain) == FALSE

\* the uniqueness check of wss.on('connection'): TRUE when the new
\* connection is turned away because the subdomain has an entry
RejectInUse(subdomain) == clients[subdomain] # NoChan /\ ~cfg.replaceExisting

\* wss.on('connection', (ws, req) => ...)
Connect(c, subdomain, token) ==
  /\ ws[c].state = "fresh"
  /\ \A d \in Chan : d < c => ws[d].state # "fresh"
  /\ Arrived(ws, req) < MaxArrivals
  /\ lastMsg' = Quiet
  /\ UNCHANGED <<cfg, observe, toTick, req, delivered>>
  /\ LET opened == [FreshWs EXCEPT !.state = "open"] IN
     IF subdomain = "" \/ ~isAllowed(subdomain) THEN
       /\ ws' = [ws EXCEPT ![c] =
                   WsClose(opened, CodePolicy, "Invalid or not allowed subdomain")]
       /\ UNCHANGED <<clients, sinceAck>>
     ELSE IF AuthFails(token) THEN
       /\ ws' = [ws EXCEPT ![c] = WsClose(opened, CodePolicy, "Auth failed")]
       /\ UNCHANGED <<clients, sinceAck>>
     ELSE IF RejectInUse(subdomain) THEN
       /\ ws' = [ws EXCEPT ![c] =
                   WsClose(opened, CodePolicy, "Subdomain already in use")]
       /\ UNCHANGED <<clients, sinceAck>>
     ELSE
       LET existing == clients[subdomain]
           closed == IF existing # NoChan
                       THEN [ws EXCEPT ![existing] =
                               WsClose(ws[existing], CodeRestart,
                                       "Replaced by new connection")]
                       ELSE ws
       IN /\ ws' = [closed EXCEPT ![c] =
                      [opened EXCEPT !.subdomain = subdomain, !.admitted = TRUE,
                                     !.isAlive = "true"]]
          /\ clients' = [clients EXCEPT ![subdomain] = c]
          /\ sinceAck' = [sinceAck EXCEPT ![c] = 0]

\* GET /availability/:subdomain: available = !clients.has(sub)
isAvailable(sub) == clients[sub] = NoChan

\* (mutant) no ws.on('close') handler: the entry stays
ReleaseNever(c) == clients

\* (mutant) close handler without the `cur?.ws === ws` guard
ReleaseAlways(c) ==
  IF ws[c].admitted THEN [clients EXCEPT ![ws[c].subdomain] = NoChan] ELSE clients

\* the registry after ws.on('close') of connection c ran: the entry goes
\* only when it still holds this very connection
ReleaseOnClose(c) ==
  LET subdomain == ws[c].subdomain IN
  IF ws[c].admitted /\ clients[subdomain] = c
    THEN [clients EXCEPT ![subdomain] = NoChan]
    ELSE clients

\* the client (or the network) starts closing the connection
RemoteClose(c) ==
  /\ ws[c].state = "open"
  /\ ws' = [ws EXCEPT ![c].state = "closing"]
  /\ lastMsg' = Quiet
  /\ UNCHANGED <<cfg, observe, clients, sinceAck, toTick, req, delivered>>

\* the 'close' event of connection c: readyState CLOSED, ws.on('close') runs
CloseEvent(c) ==
  /\ ws[c].state = "closing"
  /\ ws' = [ws EXCEPT ![c].state = "closed", ![c].isAlive = "undefined",
                       ![c].destroyed = FALSE]
  /\ clients' = ReleaseOnClose(c)
  /\ sinceAck' = [sinceAck EXCEPT ![c] = 0]
  /\ lastMsg' = Quiet
  /\ UNCHANGED <<cfg, observe, toTick, req, delivered>>

\* ws.on('pong', () => { ws.isAlive = true })
Pong(c) ==
  /\ ws[c].admitted
  /\ ws[c].state \in {"open", "closing"}
  /\ ~ws[c].destroyed
  /\ ws' = [ws EXCEPT ![c].isAlive = "true"]
  /\ sinceAck' = [sinceAck EXCEPT ![c] = 0]
  /\ lastMsg' = Quiet
  /\ UNCHANGED <<cfg, observe, clients, toTick, req, delivered>>

\* (mutant) heartbeat that terminates without a look at isAlive
HeartbeatHasty(w) == WsTerminate(w)

\* (mutant) heartbeat that pings and never terminates
HeartbeatPingOnly(w) == [w EXCEPT !.isAlive = "false"]

\* one connection's turn in the heartbeat's forEach
Heartbeat(w) ==
  IF w.isAlive = "false" THEN WsTerminate(w) ELSE [w EXCEPT !.isAlive = "false"]

\* setInterval(() => wss.clients.forEach(...), 30000)
HeartbeatTick ==
  /\ toTick = 0
  /\ ws' = [c \in Chan |-> IF c \in wssClients THEN Heartbeat(ws[c]) ELSE ws[c]]
  /\ toTick' = HeartbeatPeriod
  /\ lastMsg' = Quiet
  /\ UNCHANGED <<cfg, observe, clients, sinceAck, req, delivered>>

\* ---------------------------------------------------------------- headers
\* A header name is the sequence of its characters, a headers object the set
\* of its entries [k |-> name, v |-> value].
UpperCase ==
  <<"A", "B", "C", "D", "E", "F", "G", "H", "I", "J", "K", "L", "M",
    "N", "O", "P", "Q", "R", "S", "T", "U", "V", "W", "X", "Y", "Z">>
LowerCase ==
  <<"a", "b", "c", "d", "e", "f", "g", "h", "i", "j", "k", "l", "m",
    "n", "o", "p", "q", "r", "s", "t", "u", "v", "w", "x", "y", "z">>

\* k.toLowerCase(): every upper-case letter becomes its lower-case one
toLowerChar(ch) ==
  IF \E i \in DOMAIN UpperCase : UpperCase[i] = ch
    THEN LowerCase[CHOOSE i \in DOMAIN UpperCase : UpperCase[i] = ch]
    ELSE ch
toLowerCase(k) == [i \in DOMAIN k |-> toLowerChar(k[i])]

\* the names sanitizeHeaders leaves out
HopByHop ==
  {<<"c", "o", "n", "n", "e", "c", "t", "i", "o", "n">>,
   <<"k", "e", "e", "p", "-", "a", "l", "i", "v", "e">>,
   <<"p", "r", "o", "x", "y", "-", "a", "u", "t", "h", "e", "n", "t", "i", "c", "a", "t", "e">>,
   <<"p", "r", "o", "x", "y", "-", "a", "u", "t", "h", "o", "r", "i", "z", "a", "t", "i", "o", "n">>,
   <<"t", "e">>,
   <<"t", "r", "a", "i", "l", "e", "r">>,
   <<"t", "r", "a", "n", "s", "f", "e", "r", "-", "e", "n", "c", "o", "d", "i", "n", "g">>,
   <<"u", "p", "g", "r", "a", "d", "e">>,
   <<"h", "o", "s", "t">>}

\* (mutant) the list is searched for the name as it came, not lower-cased
sanitizeHeadersAsIs(h) == {e \in h : e.k \notin HopByHop}

\* function sanitizeHeaders(h): the entries whose lower-cased name is not in
\* the list, each under its own name and with its own value
sanitizeHeaders(h) == {e \in h : toLowerCase(e.k) \notin HopByHop}

\* header names of inbound requests: te, TE, Host, tea, x-id
HeaderNames ==
  {<<"t", "e">>, <<"T", "E">>, <<"H", "o", "s", "t">>, <<"t", "e", "a">>,
   <<"x", "-", "i", "d">>}

\* the value a request sends under a name: the name's length, as a string
HeaderValue(k) == ToString(Len(k))

\* req.headers of an inbound request: at most two of the names; every
\* request comes without headers unless the run varies them
HeaderObjects ==
  IF observe = "headers"
    THEN {{[k |-> n, v |-> HeaderValue(n)] : n \in S} :
            S \in {T \in SUBSET HeaderNames : Cardinality(T) <= 2}}
    ELSE {{}}

\* ------------------------------------------------------------- HTTP relay
NoClientConnected == [kind |-> "NoClientConnected", status |-> 502]
DeliveryFailed == [kind |-> "DeliveryFailed", status |-> 502]
UpstreamTimeout == [kind |-> "UpstreamTimeout", status |-> 504]
\* (mutant) reply that ignores data.status
AnswerDefault(m) == [kind |-> "Response", status |-> DefaultStatus]

\* res.status(data.status ?? 200) ... res.end(body): status 0 stands for an omitted field
Answer(m) ==
  [kind |-> "Response", status |-> IF m.status = 0 THEN DefaultStatus ELSE m.status]

\* (mutant) lookup failure that leaves a stale entry where it is
PruneNever(subdomain) == clients

\* if (entry) clients.delete(subdomain)
Prune(subdomain) == [clients EXCEPT ![subdomain] = NoChan]

\* app.all('/t/:subdomain/*', ...) up to the registration of req.on('end'):
\* the registry lookup, the stale-entry prune and the 502 reply
StartRelay(r, subdomain, headers) ==
  /\ req[r].phase = "idle"
  /\ \A q \in Req : q < r => req[q].phase # "idle"
  /\ Arrived(ws, req) < MaxArrivals
  /\ lastMsg' = Quiet
  /\ UNCHANGED <<cfg, observe, ws, sinceAck, toTick>>
  /\ LET entry == clients[subdomain] IN
     IF entry = NoChan \/ ws[entry].state # "open" THEN
       /\ clients' = Prune(subdomain)
       /\ req' = [req EXCEPT ![r].phase = "ended", ![r].subdomain = subdomain]
       /\ delivered' = [delivered EXCEPT ![r] = Append(@, NoClientConnected)]
     ELSE
       /\ req' = [req EXCEPT ![r].phase = "body", ![r].subdomain = subdomain,
                             ![r].entry = entry, ![r].headers = headers]
       /\ UNCHANGED <<clients, delivered>>

\* (mutant) send that transmits whatever the readyState
SendOutcomesAlways(w) == {"sent"}

\* entry.ws.send(JSON.stringify(payload)) on a socket that is not OPEN: older
\* releases of the ws package throw, newer ones (7 and later, which the named
\* import of WebSocketServer points to) drop the frame without throwing.
SendOutcomes(w) == IF w.state = "open" THEN {"sent"} ELSE {"thrown", "dropped"}

\* req.on('end', ...): arm the timer, register onMessage, send; the catch
\* branch undoes both and replies 502
EndOfBody(r, outcome) ==
  /\ req[r].phase = "body"
  /\ outcome \in SendOutcomes(ws[req[r].entry])
  /\ lastMsg' = Quiet
  /\ UNCHANGED <<cfg, observe, clients, ws, sinceAck, toTick>>
  /\ IF outcome = "thrown" THEN
       /\ req' = [req EXCEPT ![r].phase = "ended", ![r].headers = {}]
       /\ delivered' = [delivered EXCEPT ![r] = Append(@, DeliveryFailed)]
     ELSE
       /\ req' = [req EXCEPT ![r].phase = "relayed", ![r].listener = TRUE,
                             ![r].timer = TRUE, ![r].age = 0,
                             ![r].sentOn = IF outcome = "sent" THEN req[r].entry
                                           ELSE NoChan,
                             ![r].payload = sanitizeHeaders(req[r].headers)]
       /\ UNCHANGED delivered

\* messages a client can put on its connection: text that is no JSON, or an
\* object with id, type, status (0: omitted) and headers/body that res accepts
\* (valid) or that make res.setHeader / res.end / Buffer.from throw
Msgs ==
  {NoMsg} \cup
  [json : {TRUE}, id : 1..MaxReq, type : {"request"}, status : {0}, valid : {TRUE}] \cup
  [json : {TRUE}, id : 0..MaxReq, type : {"response"}, status : {0, 201},
   valid : {TRUE}] \cup
  [json : {TRUE}, id : 0..MaxReq, type : {"response"}, status : {201},
   valid : {FALSE}]

\* (mutant) match on the type tag alone, whatever the id
MatchesAnyId(r, m) == m.json /\ m.type = "response"

\* the test `data && data.id === id && data.type === 'response'` of the
\* listener of request r (JSON.parse throwing counts as no match)
Matches(r, m) == m.json /\ m.id = r /\ m.type = "response"

\* (mutant) listeners registered once for all connections
ListenersAll(c) == {r \in Req : req[r].listener}

\* the listeners the 'message' event of connection c invokes
Listeners(c) == {r \in Req : req[r].listener /\ req[r].entry = c}

\* (mutant) onMessage without clearTimeout(timer)
onMessageKeepTimer(q, m) == [q EXCEPT !.listener = FALSE]

\* onMessage of request r after a match: off, clearTimeout, then the reply
onMessageReq(q, m) ==
  [q EXCEPT !.listener = FALSE, !.timer = FALSE, !.headers = {}, !.payload = {}]
onMessageRes(d, m) == IF m.valid THEN Append(d, Answer(m)) ELSE d

\* the 'message' event of connection c carrying m
Receive(c, m) ==
  /\ ws[c].admitted
  /\ ws[c].state \in {"open", "closing"}
  /\ lastMsg' = Heard(m)
  /\ req' = [r \in Req |->
               IF r \in Listeners(c) /\ Matches(r, m)
                 THEN onMessageReq(req[r], m) ELSE req[r]]
  /\ delivered' = [r \in Req |->
                     IF r \in Listeners(c) /\ Matches(r, m)
                       THEN onMessageRes(delivered[r], m) ELSE delivered[r]]
  /\ UNCHANGED <<cfg, observe, clients, ws, sinceAck, toTick>>

\* (mutant) timer callback that leaves onMessage registered
onTimeoutKeepListener(q) == [q EXCEPT !.timer = FALSE]

\* the setTimeout callback: entry.ws.off('message', onMessage), then the 504
onTimeoutReq(q) ==
  [q EXCEPT !.listener = FALSE, !.timer = FALSE, !.headers = {}, !.payload = {}]
onTimeoutRes(d) == Append(d, UpstreamTimeout)

\* the timer of request r fires, RelayTimeout after it was armed
TimerFire(r) ==
  /\ req[r].timer
  /\ req[r].age = RelayTimeout
  /\ req' = [req EXCEPT ![r] = onTimeoutReq(@)]
  /\ delivered' = [delivered EXCEPT ![r] = onTimeoutRes(@)]
  /\ lastMsg' = Quiet
  /\ UNCHANGED <<cfg, observe, clients, ws, sinceAck, toTick>>

\* ------------------------------------------------------------------- time
Armed == {r \in Req : req[r].timer}
Tracked == {c \in Chan : observe = "clock" /\ ws[c].admitted /\ ws[c].state # "closed"}

\* time passes, up to the next timer that is due; a destroyed socket's
\* 'close' event and every due timer run first
Advance ==
  /\ toTick > 0
  /\ \A r \in Armed : req[r].age < RelayTimeout
  /\ \A c \in Chan : ~(ws[c].destroyed /\ ws[c].state = "closing")
  /\ LET d == MinOf({Quantum, toTick} \cup {RelayTimeout - req[r].age : r \in Armed}) IN
     /\ toTick' = toTick - d
     /\ req' = [r \in Req |-> IF r \in Armed THEN [req[r] EXCEPT !.age = @ + d]
                              ELSE req[r]]
     /\ sinceAck' = [c \in Chan |-> IF c \in Tracked
                                      THEN Min2(sinceAck[c] + d, AckCap)
                                      ELSE sinceAck[c]]
  /\ lastMsg' = Quiet
  /\ UNCHANGED <<cfg, observe, clients, ws, delivered>>

Next ==
  \/ \E c \in Chan, s \in Sub \cup {""}, t \in {"", "secret", Generated, "wrong"} :
       Connect(c, s, t)
  \/ \E c \in Chan : RemoteClose(c)
  \/ \E c \in Chan : CloseEvent(c)
  \/ \E c \in Chan : Pong(c)
  \/ HeartbeatTick
  \/ \E r \in Req, s \in Sub, h \in HeaderObjects : StartRelay(r, s, h)
  \/ \E r \in Req, o \in {"sent", "thrown", "dropped"} : EndOfBody(r, o)
  \/ \E c \in Chan, m \in Msgs : Receive(c, m)
  \/ \E r \in Req : TimerFire(r)
  \/ Advance

Spec == Init /\ [][Next]_vars

\* the same server, started with a configured token and no allow-list
Plain == {k \in Configs : k.authToken = "secret" /\ k.allowedSubdomains = {}}

\* ... with the time since each connection's last pong recorded
InitClock ==
  /\ cfg \in Plain
  /\ observe = "clock"
  /\ Started

SpecClock == InitClock /\ [][Next]_vars

\* ... with the message each 'message' event carried recorded
InitObserved ==
  /\ cfg \in Plain
  /\ observe = "messages"
  /\ Started

SpecObserved == InitObserved /\ [][Next]_vars

\* ... with the headers of the inbound requests varied
InitHeaders ==
  /\ cfg \in Plain
  /\ observe = "headers"
  /\ Started

SpecHeaders == InitHeaders /\ [][Next]_vars

\* ================================================================ claims
Pending(r) == req[r].listener /\ req[r].timer
OpenOwners(s) == {c \in Chan : ws[c].admitted /\ ws[c].state = "open" /\ ws[c].subdomain = s}
Arrives(c) == ws[c].state = "fresh" /\ ws'[c].state # "fresh"
PassesChecks(s, t) == s # "" /\ isAllowed(s) /\ ~AuthFails(t)

\* C1: with takeover disabled, a claim on a subdomain that has an entry is
\* rejected with 'Subdomain already in use' and leaves the registry as it is;
\* an entry changes only by being removed, a connection is admitted only
\* onto a subdomain without entry, and no two admitted open connections
\* hold the same subdomain.
C1_Step ==
  ~cfg.replaceExisting =>
    /\ \A s \in Sub :
         /\ Cardinality(OpenOwners(s)) <= 1
         /\ (clients[s] # NoChan /\ clients'[s] # clients[s]) => clients'[s] = NoChan
         /\ (clients[s] = NoChan /\ clients'[s] # NoChan) =>
               Arrives(clients'[s]) /\ ws'[clients'[s]].subdomain = s
    /\ \A c \in Chan, s \in Sub, t \in {"", "secret", Generated, "wrong"} :
         (Connect(c, s, t) /\ clients[s] # NoChan /\ PassesChecks(s, t)) =>
           /\ ~ws'[c].admitted
           /\ ws'[c].state = "closing"
           /\ ws'[c].code = 1008 /\ ws'[c].reason = "Subdomain already in use"
           /\ clients' = clients
           /\ ws'[clients[s]] = ws[clients[s]]
C1_FirstWins == [][C1_Step]_vars

\* a second connection was turned away while the first one owns "a"
C1_Witness ==
  /\ ~cfg.replaceExisting
  /\ clients["a"] = 1 /\ ws[1].state = "open"
  /\ ws[2].reason = "Subdomain already in use"

\* C2: with takeover enabled, a claim on a subdomain that has an entry puts
\* the new connection in the entry in the same step (the subdomain is never
\* without entry, so never available, in between), the previous owner is no longer open and, if
\* it was open, is closing with code 1012 'Replaced by new connection', a
\* code no other close uses; no two admitted open connections hold the same
\* subdomain.
C2_Step ==
  cfg.replaceExisting =>
    /\ \A s \in Sub : Cardinality(OpenOwners(s)) <= 1
    /\ \A c \in Chan : ws[c].code = 1012 =>
         ws[c].admitted /\ clients[ws[c].subdomain] # c /\ ws[c].state # "open"
    /\ \A c \in Chan, s \in Sub, t \in {"", "secret", Generated, "wrong"} :
         (Connect(c, s, t) /\ clients[s] # NoChan /\ PassesChecks(s, t)) =>
           LET old == clients[s] IN
           /\ clients'[s] = c /\ ~isAvailable(s)'
           /\ ws'[c].admitted /\ ws'[c].state = "open"
           /\ ws'[old].state # "open"
           /\ ws[old].state = "open" =>
                /\ ws'[old].state = "closing"
                /\ ws'[old].code = 1012
                /\ ws'[old].reason = "Replaced by new connection"
           /\ \A x \in Sub \ {s} : clients'[x] = clients[x]
C3_Step ==
  \A c \in Chan :
    (ws[c].state = "closing" /\ ws'[c].state = "closed") =>
      \A s \in Sub :
        clients'[s] = IF clients[s] = c THEN NoChan ELSE clients[s]
C3_ReleaseOnlyOwn == [][C3_Step]_vars

\* the replaced connection 1 has closed and "a" still maps to connection 2
C3_Witness ==
  /\ ws[1].code = 1012 /\ ws[1].state = "closed" /\ ws[1].subdomain = "a"
  /\ clients["a"] = 2 /\ ws[2].state = "open" /\ ws[2].subdomain = "a"

\* the step resolves request r: its listener is registered before, gone after
Resolves(r) == req[r].listener /\ ~req'[r].listener
\* the step is a 'message' event whose message matches r but cannot be applied
Malformed(r) ==
  \E c \in Chan, m \in Msgs : Receive(c, m) /\ r \in Listeners(c) /\ Matches(r, m) /\ ~m.valid
Frame == <<cfg, clients, ws, sinceAck, toTick, req, delivered>>

\* C4: no request ever has a second reply written: a reply, once written,
\* stays the only one, a request with a reply has neither listener nor armed
\* timer left, and every step that resolves a pending request by a response
\* that can be applied, by its timer or by a failed send writes exactly one
\* reply of the three kinds.
C4_Step ==
  \A r \in Req :
    /\ Len(delivered'[r]) <= 1
    /\ delivered[r] # <<>> => delivered'[r] = delivered[r]
    /\ delivered'[r] # <<>> => ~req'[r].listener /\ ~req'[r].timer
    /\ ((Resolves(r) /\ ~Malformed(r)) \/ (req[r].phase = "body" /\ req'[r].phase = "ended")) =>
         /\ Len(delivered'[r]) = 1
         /\ delivered'[r][1].kind \in {"Response", "UpstreamTimeout", "DeliveryFailed"}
C5_EveryEnvelopeResolves ==
  \A r \in Req : (req[r].phase = "relayed" /\ delivered[r] = <<>>) => req[r].timer

\* C6 (as stated): the 'close' event of a connection resolves every request
\* pending on it with the DeliveryFailed reply, and afterwards the registry
\* does not map any subdomain to that connection.
C6_Step ==
  \A c \in Chan :
    (ws[c].state = "closing" /\ ws'[c].state = "closed") =>
      /\ \A s \in Sub : clients'[s] # c
      /\ \A r \in Req : (Pending(r) /\ req[r].entry = c) =>
           /\ delivered'[r] = <<DeliveryFailed>>
           /\ ~req'[r].listener /\ ~req'[r].timer
C6_CloseFailsPending == [][C6_Step]_vars

\* C7: an armed timer is never older than 30; time does not pass while one
\* is 30 old; no message but a response with the request's id disarms its
\* timer; the step that disarms it without a message being received happens
\* at age 30 and writes UpstreamTimeout as the first reply; a response with
\* that id received afterwards changes nothing.
C7_Step ==
  \A r \in Req :
    /\ req[r].timer => req[r].age <= 30
    /\ (req[r].timer /\ req[r].age = 30) => toTick' >= toTick
    /\ (req[r].timer /\ ~req'[r].timer /\ lastMsg'.kind = "none") =>
         /\ req[r].age = 30
         /\ delivered[r] = <<>> /\ delivered'[r] = <<UpstreamTimeout>>
         /\ ~req'[r].listener
    /\ (req[r].timer /\ ~req'[r].timer /\ lastMsg'.kind # "none") =>
         lastMsg' = [kind |-> "response", id |-> r]
    /\ (delivered[r] = <<UpstreamTimeout>> /\ lastMsg' = [kind |-> "response", id |-> r]) =>
         UNCHANGED Frame
C7_TimeoutThenDiscard == [][C7_Step]_vars

\* request 1 timed out and a response with id 1 arrived afterwards
C7_Witness ==
  /\ delivered[1] = <<UpstreamTimeout>>
  /\ lastMsg = [kind |-> "response", id |-> 1]

\* C8: a 'message' event carrying a response whose id is the id of no pending
\* request leaves registry, connections, requests, timers and replies as
\* they are.
C8_Step ==
  (lastMsg'.kind = "response" /\ \A r \in Req : Pending(r) => r # lastMsg'.id) =>
    UNCHANGED Frame
C8_IdempotentDiscard == [][C8_Step]_vars

\* a response with an unknown id arrived while two requests are pending
C8_Witness ==
  /\ lastMsg = [kind |-> "response", id |-> 0]
  /\ Pending(1) /\ Pending(2)

\* C9: a 'message' event carrying a response changes no request but the
\* pending one with the message's id on that connection; that one, when the
\* response can be applied, gets the message's status (200 when omitted) as
\* its only reply and is no longer pending.
C9_Step ==
  \A c \in Chan, m \in Msgs :
    (Receive(c, m) /\ m.json /\ m.type = "response") =>
      /\ \A r \in Req \ {m.id} : req'[r] = req[r] /\ delivered'[r] = delivered[r]
      /\ \A r \in Req :
           (r = m.id /\ Pending(r) /\ req[r].entry = c /\ m.valid) =>
             /\ delivered'[r] =
                  <<[kind |-> "Response", status |-> IF m.status = 0 THEN 200 ELSE m.status]>>
             /\ ~req'[r].listener /\ ~req'[r].timer
C9_MatchById == [][C9_Step]_vars

\* request 2 was answered with status 201 while request 1, on the same
\* connection, is still pending
C9_Witness ==
  /\ delivered[2] = <<[kind |-> "Response", status |-> 201]>>
  /\ Pending(1) /\ delivered[1] = <<>>
  /\ req[1].entry = req[2].entry /\ req[1].sentOn = req[2].sentOn
  /\ lastMsg = [kind |-> "response", id |-> 2]

\* C10: a connection in the registry has its 'close' event still to come and
\* was admitted or sent a pong at most 2 x 30 ago; once 2 x 30 have passed
\* and the heartbeat of that instant has run, its socket is destroyed.
C10_LivenessBound ==
  \A s \in Sub : clients[s] # NoChan =>
    LET c == clients[s] IN
    /\ ws[c].state # "closed"
    /\ sinceAck[c] <= 2 * 30
    /\ (sinceAck[c] = 2 * 30 /\ toTick > 0) => ws[c].destroyed

\* a silent connection, still in the registry, was terminated 2 x 30 after
\* its admission
C10_Witness ==
  \E c \in Chan :
    /\ ws[c].admitted /\ clients[ws[c].subdomain] = c
    /\ ws[c].destroyed /\ sinceAck[c] = 2 * 30

\* the tokens a connection can present ("": none or empty)
Presented == {"", "secret", Generated, "wrong"}

\* C11 (as stated): whatever the configured authToken (absent, empty,
\* non-empty), a secret is active, and a connection is registered only when
\* the token it presents equals that secret and is not empty.
C11_Step ==
  \A c \in Chan, s \in Sub, t \in Presented :
    (Connect(c, s, t) /\ ws'[c].admitted) =>
      /\ effectiveToken # ""
      /\ t = effectiveToken
      /\ t # ""
C11_OnlyTheSecret == [][C11_Step]_vars

\* the step is the relay handler starting on request r
Begins(r) == req[r].phase = "idle" /\ req'[r].phase # "idle"

\* C12: a relay call for a subdomain without entry, or whose entry's
\* connection is not OPEN, is answered 502 NoClientConnected at once: nothing
\* is sent, no listener is registered, no timer armed, no connection touched;
\* the registry loses that subdomain's entry when it had one and is otherwise
\* unchanged.
C12_Step ==
  \A r \in Req :
    Begins(r) =>
      LET s == req'[r].subdomain IN
      (clients[s] = NoChan \/ ws[clients[s]].state # "open") =>
        /\ delivered'[r] = <<[kind |-> "NoClientConnected", status |-> 502]>>
        /\ req'[r].phase = "ended"
        /\ ~req'[r].listener /\ ~req'[r].timer
        /\ req'[r].entry = NoChan /\ req'[r].sentOn = NoChan
        /\ ws' = ws
        /\ clients'[s] = NoChan
        /\ \A x \in Sub \ {s} : clients'[x] = clients[x]
        /\ \A q \in Req \ {r} : req'[q] = req[q] /\ delivered'[q] = delivered[q]
C12_NoClientConnected == [][C12_Step]_vars

\* the only connection there ever was is closing on the client's side, and a
\* request for its subdomain was answered NoClientConnected and took its
\* entry out of the registry
C12_Witness ==
  /\ ws[1].admitted /\ ws[1].subdomain = "a" /\ ws[1].state = "closing"
  /\ ws[2].state = "fresh"
  /\ clients["a"] = NoChan
  /\ req[1].subdomain = "a" /\ delivered[1] = <<NoClientConnected>>

\* the step is the 'end' handler of request r
Sends(r) == req[r].phase = "body" /\ req'[r].phase # "body"

\* C13 (as stated): when the entry's socket is not OPEN as the 'end' handler
\* sends, the request is answered 502 DeliveryFailed in that very step, with
\* its listener removed and its timer disarmed.
C13_Step ==
  \A r \in Req :
    (Sends(r) /\ ws[req[r].entry].state # "open") =>
      /\ delivered'[r] = <<[kind |-> "DeliveryFailed", status |-> 502]>>
      /\ ~req'[r].listener /\ ~req'[r].timer
C13_SendFailureImmediate == [][C13_Step]_vars

\* C14 (as stated): every registry entry holds an admitted connection that
\* is OPEN and claimed that subdomain (so a connection is under one key at
\* most), and every admitted OPEN connection is the entry of its subdomain.
C14_RegistryExact ==
  /\ \A s \in Sub : clients[s] # NoChan =>
       /\ ws[clients[s]].admitted
       /\ ws[clients[s]].subdomain = s
       /\ ws[clients[s]].state = "open"
  /\ \A c \in Chan : (ws[c].admitted /\ ws[c].state = "open") =>
       clients[ws[c].subdomain] = c

\* C14 (amended): the same, with an entry's connection being one whose
\* 'close' event has not run yet: OPEN, or CLOSING.
C14_RegistryLive ==
  /\ \A s \in Sub : clients[s] # NoChan =>
       /\ ws[clients[s]].admitted
       /\ ws[clients[s]].subdomain = s
       /\ ws[clients[s]].state \in {"open", "closing"}
  /\ \A c \in Chan : (ws[c].admitted /\ ws[c].state = "open") =>
       clients[ws[c].subdomain] = c

\* the entry of "a" holds a connection that is closing, next to an open
\* owner of "b"
C14_Witness ==
  \E c, d \in Chan :
    /\ clients["a"] = c /\ ws[c].state = "closing"
    /\ clients["b"] = d /\ ws[d].state = "open"

\* the admission check the attempt (s, t) fails first, in the order the
\* checks are made; "" when it fails none
FailedCheck(s, t) ==
  IF s = "" \/ (cfg.allowedSubdomains # {} /\ s \notin cfg.allowedSubdomains)
    THEN "Invalid or not allowed subdomain"
  ELSE IF t # effectiveToken THEN "Auth failed"
  ELSE IF clients[s] # NoChan /\ ~cfg.replaceExisting THEN "Subdomain already in use"
  ELSE ""

\* C15 (as stated): a connection attempt that fails an admission check (no
\* subdomain or one outside a non-empty allow-list, a token that is not the
\* secret, a subdomain that has an entry while takeover is off) is closed
\* with 1008 and that check's reason and not registered, and the registry
\* and every other connection, the owner included, stay as they are.
C15_Step ==
  \A c \in Chan, s \in Sub \cup {""}, t \in Presented :
    (Connect(c, s, t) /\ FailedCheck(s, t) # "") =>
      /\ ~ws'[c].admitted
      /\ ws'[c].state = "closing"
      /\ ws'[c].code = 1008 /\ ws'[c].reason = FailedCheck(s, t)
      /\ clients' = clients
      /\ \A d \in Chan \ {c} : ws'[d] = ws[d]
C15_RejectionFrame == [][C15_Step]_vars

\* the name k is one of the nine listed names, in whatever letter case
Listed(k) ==
  \E n \in HopByHop :
    /\ Len(n) = Len(k)
    /\ \A i \in 1..Len(k) : k[i] = n[i] \/ toLowerChar(k[i]) = n[i]

\* C16: the headers of the request message the 'end' handler builds and
\* sends hold no entry under one of the nine listed names, in whatever
\* letter case the name came, and hold every other entry of the inbound
\* request's headers, name and value as they came, and nothing else.
C16_Step ==
  \A r \in Req :
    (Sends(r) /\ req'[r].phase = "relayed") =>
      /\ \A e \in req'[r].payload : ~Listed(e.k)
      /\ \A e \in req[r].headers : ~Listed(e.k) => e \in req'[r].payload
      /\ req'[r].payload \subseteq req[r].headers
C16_HopByHopStripped == [][C16_Step]_vars

\* a request that came with Host and x-id went out on connection 1 with
\* x-id alone
C16_Witness ==
  /\ req[1].sentOn = 1
  /\ req[1].headers = {[k |-> <<"H", "o", "s", "t">>, v |-> "4"],
                       [k |-> <<"x", "-", "i", "d">>, v |-> "4"]}
  /\ req[1].payload = {[k |-> <<"x", "-", "i", "d">>, v |-> "4"]}

\* C17 (as stated): a 'message' event whose message is no JSON text, has
\* another type tag than 'response', or cannot be applied to the HTTP reply
\* leaves registry, connections, requests (their listeners and timers
\* included) and replies as they are.
C17_Step ==
  \A c \in Chan, m \in Msgs :
    (Receive(c, m) /\ (~m.json \/ m.type # "response" \/ ~m.valid)) =>
      UNCHANGED Frame
C17_MalformedDropped == [][C17_Step]_vars

\* C18: when the 'end' handler of a request for subdomain s puts the request
\* message on a connection, that connection is OPEN and is the one the
\* registry maps s to at that moment; when the entry found at the lookup has
\* been released or replaced since, no request message goes out on it.
C18_Step ==
  \A r \in Req :
    Sends(r) =>
      LET s == req[r].subdomain IN
      /\ req'[r].sentOn # NoChan =>
           /\ req'[r].sentOn = clients[s]
           /\ ws[clients[s]].state = "open"
      /\ clients[s] # req[r].entry => req'[r].sentOn = NoChan
C18_SendOnCurrentOwner == [][C18_Step]_vars

\* connection 1 was replaced by connection 2 between the lookup and the end
\* of the body of request 1, and the request did not go out on connection 1
C18_Witness ==
  /\ req[1].entry = 1 /\ req[1].phase \in {"relayed", "ended"}
  /\ req[1].sentOn = NoChan
  /\ ws[1].code = 1012
  /\ clients[req[1].subdomain] = 2 /\ ws[2].state = "open"

\* C19 (as stated): a request has its listener registered exactly when its
\* timer is armed, and exactly when it was relayed and has no reply yet; so
\* once every relayed request has its reply, no listener or timer remains.
C19_OneToOne ==
  \A r \in Req :
    /\ req[r].listener <=> req[r].timer
    /\ req[r].listener <=> (req[r].phase = "relayed" /\ delivered[r] = <<>>)

\* the step is the heartbeat interval firing
Ticks == toTick = 0 /\ toTick' = 30

\* C20: when the heartbeat fires, every OPEN connection whose isAlive is
\* false is terminated in that step, and every other OPEN connection stays
\* open with isAlive set to false (it is pinged); a pong sets isAlive to
\* true; so an admitted connection's socket is destroyed only by a heartbeat
\* that finds isAlive false, a full period or more after the connection's
\* last pong: one that answers each ping before the next heartbeat is never
\* terminated.
C20_Step ==
  /\ Ticks =>
       \A c \in Chan : ws[c].state = "open" =>
         IF ws[c].isAlive = "false"
           THEN ws'[c].destroyed /\ ws'[c].state # "open"
           ELSE ws'[c].state = "open" /\ ~ws'[c].destroyed /\ ws'[c].isAlive = "false"
  /\ \A c \in Chan : Pong(c) => ws'[c].isAlive = "true"
  /\ \A c \in Chan : (ws[c].admitted /\ ~ws[c].destroyed /\ ws'[c].destroyed) =>
       /\ Ticks
       /\ ws[c].isAlive = "false"
       /\ sinceAck[c] >= 30
C20_TwoStrikes == [][C20_Step]_vars

\* connection 2, silent since its admission, has been terminated while the
\* older connection 1, which answered its pings, is still open
C20_Witness ==
  /\ ws[2].admitted /\ ws[2].destroyed /\ sinceAck[2] = 2 * 30
  /\ ws[1].admitted /\ ws[1].state = "open" /\ ws[1].isAlive = "true"
  /\ sinceAck[1] = 0

\* C21: a 'message' event on connection c changes a request (removes its
\* listener, disarms its timer, writes its reply) only when c is the
\* connection the request's 'end' handler sent on, the one the request
\* message went out on when it went out at all, and the message carries the
\* request's id; the same message on any other connection leaves the request
\* pending and without reply.
C21_Step ==
  \A c \in Chan, m \in Msgs :
    Receive(c, m) =>
      \A r \in Req :
        /\ (req'[r] # req[r] \/ delivered'[r] # delivered[r]) =>
             /\ c = req[r].entry
             /\ req[r].sentOn # NoChan => c = req[r].sentOn
             /\ m.id = r
        /\ c # req[r].entry => req'[r] = req[r] /\ delivered'[r] = delivered[r]
C21_SameChannelOnly == [][C21_Step]_vars

\* request 1 went out on connection 1; connection 2 has taken the subdomain
\* over since, a response with id 1 has been received, and request 1 is
\* still pending without reply
C21_Witness ==
  /\ req[1].sentOn = 1 /\ Pending(1) /\ delivered[1] = <<>>
  /\ ws[1].code = 1012
  /\ clients[req[1].subdomain] = 2 /\ ws[2].state = "open"
  /\ lastMsg = [kind |-> "response", id |-> 1]
====
